---------------------------- MODULE Spec2Model ----------------------------
(***************************************************************************)
(* A state-machine model of deltadewa: AmericanOption                      *)
(* (src/deltadewa/american_option.py) and OptionPosition / OptionPortfolio *)
(* (src/deltadewa/portfolio.py).                                           *)
(*                                                                         *)
(* Numbers.  Spot, strike, volatility and rates are integers counted in    *)
(* units of the bump size h = 0.01 of the source, so that x + h is x + H.  *)
(* Dates are day numbers.  Every computed float is a rational <<n, d>> in  *)
(* lowest terms with d > 0 (rounding is not modelled).                     *)
(*                                                                         *)
(* QuantLib.  The solver behind self.option.NPV() / .delta() / ... is not  *)
(* part of the repository.  It is represented by the deterministic         *)
(* stand-in NPVval, which reads exactly the objects _setup_quantlib wires  *)
(* into the engine (quote, the three term structures, payoff, exercise),   *)
(* and by three facts of the library: an option whose last exercise date   *)
(* is not after the process-wide evaluation date is expired (NPV and all   *)
(* Greeks 0, no solve); AmericanExercise rejects earliest > latest; the    *)
(* finite-difference solve rejects a non-positive underlying and provides  *)
(* only the Greeks named by the capability set `provided`.                 *)
(***************************************************************************)
EXTENDS Integers, Sequences, FiniteSets, TLC

VARIABLES
    positions,            \* OptionPortfolio.positions: sequence of OptionPosition
    underlying_quantity,  \* OptionPortfolio.underlying_quantity
    spot_price,           \* OptionPortfolio.spot_price
    volatility,           \* OptionPortfolio.volatility
    risk_free_rate,       \* OptionPortfolio.risk_free_rate
    dividend_yield,       \* OptionPortfolio.dividend_yield
    valuation_date,       \* OptionPortfolio.valuation_date
    evaluationDate,       \* ql.Settings.instance().evaluationDate (process-wide)
    optA,                 \* a stand-alone AmericanOption instance A (or None)
    optB,                 \* a stand-alone AmericanOption instance B (or None)
    provided,             \* Greeks the solver exposes directly (fixed per run)
    last,                 \* the last call: its name, arguments, outcome, result
    threads               \* two threads sharing the portfolio: where each stands

vars == <<positions, underlying_quantity, spot_price, volatility, risk_free_rate,
          dividend_yield, valuation_date, evaluationDate, optA, optB, provided, last,
          threads>>

pfvars == <<positions, underlying_quantity, spot_price, volatility, risk_free_rate,
            dividend_yield, valuation_date>>

-----------------------------------------------------------------------------
(* Bounds of the model.                                                    *)

MaxPos == 2          \* positions a portfolio holds at most
MaxGrid == 1         \* points of a scenario grid at most
MaxDrift == 1        \* bumps a failed fallback may have left on an engine that is still used
MaxSamples == 2      \* points of a grid given to a risk/reward method at most
MaxSims == 2         \* num_simulations at most
MaxLinspace == 3     \* points of a default grid (np.linspace(..., 200) and (..., 500))

(* Program constants.                                                      *)

H == 1               \* h = 0.01, the bump of every fallback (the unit of the model)
DefaultContractSize == 100
PercentScale == 100  \* hedge_ratio's "* 100"
DefaultDays == 30    \* days_to_expiry of an empty portfolio

\* An optional argument is None or Some(x); a field not yet set holds None.
None == <<>>
Some(x) == <<x>>
NoExc == "ok"

-----------------------------------------------------------------------------
(* Input domains.                                                          *)

Greeks == {"delta", "gamma", "vega", "theta", "rho"}
FdProvided == {"delta", "gamma", "theta"}

InitSpot == 10000
InitVol == 20
InitRate == 5
InitDiv == 0
InitDate == 0

SpotInputs == {0, 10200}
VolInputs == {25}
RateInputs == {3}
DivInputs == {2}
DateInputs == {2}
Strikes == {9900}
Maturities == {1}
SizeInputs == {50}
UnderlyingInputs == {0, -10}
InvalidKinds == {"fx"}
HedgeInputs == {-10, 0, 10}
ExpirySpots == {10000, 10165, 10300}
Variates == {-5, 5}
CustomSymbol == "Y"

\* Arguments outside the domain of the contract: a spot that is not positive,
\* a negative volatility, a strike that is not positive.
BadSpots == {0, -100}
BadVols == {-5}
BadStrikes == {0, -100}

\* The contracts add_position and update_position are given: a short call, a
\* long put, the call spelled in capitals, and a kind that is neither.
Contract(strike, maturity, kind, quantity) ==
    [strike |-> strike, maturity |-> maturity, kind |-> kind, quantity |-> quantity]

ContractInputs ==
    {Contract(10100, 3, "call", -1), Contract(10100, 1, "put", 2),
     Contract(10100, 3, "CALL", -1), Contract(10100, 3, "fx", -1)}

-----------------------------------------------------------------------------
(* Exact arithmetic on rationals <<n, d>>.                                 *)

Abs(x) == IF x < 0 THEN -x ELSE x

RECURSIVE Gcd(_, _)
Gcd(a, b) == IF b = 0 THEN a ELSE Gcd(b, a % b)

Norm(n, d) ==
    LET s == IF d < 0 THEN -1 ELSE 1
        g == Gcd(Abs(n), Abs(d))
    IN  <<(s * n) \div g, (s * d) \div g>>

Q(n) == <<n, 1>>
QAdd(a, b) == Norm(a[1] * b[2] + b[1] * a[2], a[2] * b[2])
QSub(a, b) == Norm(a[1] * b[2] - b[1] * a[2], a[2] * b[2])
QMul(a, b) == Norm(a[1] * b[1], a[2] * b[2])
QDiv(a, b) == Norm(a[1] * b[2], a[2] * b[1])
QNeg(a) == <<-a[1], a[2]>>

-----------------------------------------------------------------------------
(* AmericanOption.                                                         *)

\* str.lower() on the spellings the model feeds in.
Lower(s) ==
    CASE s = "CALL" -> "call"
      [] s = "Call" -> "call"
      [] s = "PUT" -> "put"
      [] s = "Put" -> "put"
      [] OTHER -> s

\* Outcome of a call on one engine: the engine, the process-wide evaluation
\* date, the value returned and the exception raised (NoExc if none).
Out(o, ed, val, exc) == [o |-> o, ed |-> ed, val |-> val, exc |-> exc]

\* _setup_quantlib with the check of the option type left out: every type
\* that is not "call" is priced as a put.
SetupQuantlibAnyKind(o, ed) ==
    LET payoff == IF o.option_type = "call" THEN "call" ELSE "put"
    IN  IF o.maturity_date < o.valuation_date
        THEN Out(o, o.valuation_date, Q(0), "RuntimeError")
        ELSE Out([o EXCEPT !.spot_quote = o.spot_price,
                           !.flat_vol_ts = o.volatility,
                           !.flat_ts = o.risk_free_rate,
                           !.dividend_ts = o.dividend_yield],
                 o.valuation_date, Q(0), NoExc)

\* _setup_quantlib: the evaluation date is set first (line 68); an invalid
\* option type raises ValueError (line 76) and AmericanExercise raises when
\* the maturity precedes the valuation date (line 79), both before any
\* pricing object of the instance is replaced; otherwise quote and term
\* structures are rebuilt from the instance's fields (lines 82-108).
SetupQuantlib(o, ed) ==
    IF o.option_type \notin {"call", "put"}
    THEN Out(o, o.valuation_date, Q(0), "ValueError")
    ELSE IF o.maturity_date < o.valuation_date
    THEN Out(o, o.valuation_date, Q(0), "RuntimeError")
    ELSE Out([o EXCEPT !.spot_quote = o.spot_price,
                       !.flat_vol_ts = o.volatility,
                       !.flat_ts = o.risk_free_rate,
                       !.dividend_ts = o.dividend_yield],
             o.valuation_date, Q(0), NoExc)

\* AmericanOption.__init__ (lines 41-51).
NewOption(spot, strike, maturity, vol, rate, div, kind, vdate, ed) ==
    SetupQuantlib([spot_price |-> spot, volatility |-> vol,
                   risk_free_rate |-> rate, dividend_yield |-> div,
                   valuation_date |-> vdate, option_type |-> Lower(kind),
                   maturity_date |-> maturity,
                   spot_quote |-> None, flat_vol_ts |-> None,
                   flat_ts |-> None, dividend_ts |-> None,
                   strike_price |-> strike], ed)

\* update_spot_price that records the new spot without moving the quote.
UpdateSpotPriceFieldOnly(o, x) == [o EXCEPT !.spot_price = x]

\* update_spot_price (lines 213-216).
UpdateSpotPrice(o, x) == [o EXCEPT !.spot_price = x, !.spot_quote = x]

\* update_volatility (lines 218-221).
UpdateVolatility(o, ed, v) == SetupQuantlib([o EXCEPT !.volatility = v], ed)

Max(a, b) == IF a > b THEN a ELSE b

\* The payoff wired into the engine, at the quoted spot.
Payoff(kind, spot, strike) ==
    IF kind = "call" THEN Max(0, spot - strike) ELSE Max(0, strike - spot)

\* intrinsic_value (lines 202-207).
IntrinsicValue(o) ==
    IF o.option_type = "call"
    THEN Max(0, o.spot_price - o.strike_price)
    ELSE Max(0, o.strike_price - o.spot_price)

Expired(o, ed) == o.maturity_date <= ed

\* Stand-in for the solved value: payoff at the quote plus a time value that
\* reads each term structure of the Black-Scholes-Merton process.
NPVval(o) ==
    Payoff(o.option_type, o.spot_quote, o.strike_price)
      + o.flat_vol_ts * (o.maturity_date - o.valuation_date)
      + o.flat_ts - o.dividend_ts

\* self.option.NPV(), as price() calls it (lines 110-112).
NPV(o, ed) ==
    IF Expired(o, ed) THEN Out(o, ed, Q(0), NoExc)
    ELSE IF o.spot_quote <= 0 THEN Out(o, ed, Q(0), "RuntimeError")
    ELSE Out(o, ed, Q(NPVval(o)), NoExc)

-----------------------------------------------------------------------------
(* The Greeks of one engine.  Each returns Out(engine after the call,      *)
(* evaluation date after the call, value, exception).                      *)

\* Whether self.option.<greek>() returns instead of raising RuntimeError:
\* an expired instrument reports 0 for everything without a solve; otherwise
\* the solver must provide the Greek and the solve must succeed.
AnalyticOK(o, ed, g) == Expired(o, ed) \/ (g \in provided /\ o.spot_quote > 0)

\* Stand-in for the value the solver reports for a Greek it provides, in the
\* units of the source (vega and rho divided by 100, theta by 365).
AnalyticGreek(o, ed, g) ==
    IF Expired(o, ed) THEN Q(0)
    ELSE CASE g = "delta" ->
                QDiv(Q(NPVval([o EXCEPT !.spot_quote = @ + H])
                         - NPVval([o EXCEPT !.spot_quote = @ - H])), Q(2 * H))
           [] g = "gamma" ->
                QDiv(Q(NPVval([o EXCEPT !.spot_quote = @ + 2 * H])
                         - 2 * NPVval(o)
                         + NPVval([o EXCEPT !.spot_quote = @ - 2 * H])),
                     Q(4 * H * H))
           [] g = "vega" ->
                QDiv(Q(NPVval([o EXCEPT !.flat_vol_ts = @ + H])
                         - NPVval([o EXCEPT !.flat_vol_ts = @ - H])), Q(2))
           [] g = "theta" ->
                Q(NPVval([o EXCEPT !.maturity_date = @ - 1]) - NPVval(o))
           [] OTHER ->
                QDiv(Q(NPVval([o EXCEPT !.flat_ts = @ + H])
                         - NPVval([o EXCEPT !.flat_ts = @ - H])), Q(2))

\* The one element of a singleton.  Only({e : x \in {v}}) is e with x naming
\* the value of v: the result of a statement, computed once and then read.
Only(S) == CHOOSE x \in S : TRUE

\* delta (lines 114-127).
Delta(o, ed) ==
    IF AnalyticOK(o, ed, "delta")
    THEN Out(o, ed, AnalyticGreek(o, ed, "delta"), NoExc)
    ELSE LET original_spot == o.spot_price
             o1 == UpdateSpotPrice(o, original_spot + H)
             o2 == UpdateSpotPrice(o1, original_spot - H)
             o3 == UpdateSpotPrice(o2, original_spot)
         IN  Only({
               IF price_up.exc # NoExc THEN Out(o1, ed, Q(0), price_up.exc)
               ELSE Only({
                 IF price_down.exc # NoExc THEN Out(o2, ed, Q(0), price_down.exc)
                 ELSE Out(o3, ed, QDiv(QSub(price_up.val, price_down.val), Q(2 * H)),
                          NoExc)
                 : price_down \in {NPV(o2, ed)}})
               : price_up \in {NPV(o1, ed)}})

\* gamma (lines 129-142): the bumped deltas go through delta() itself.
Gamma(o, ed) ==
    IF AnalyticOK(o, ed, "gamma")
    THEN Out(o, ed, AnalyticGreek(o, ed, "gamma"), NoExc)
    ELSE LET original_spot == o.spot_price
         IN  Only({
               IF delta_up.exc # NoExc THEN delta_up
               ELSE Only({
                 IF delta_down.exc # NoExc THEN delta_down
                 ELSE Out(UpdateSpotPrice(delta_down.o, original_spot), delta_down.ed,
                          QDiv(QSub(delta_up.val, delta_down.val), Q(2 * H)), NoExc)
                 : delta_down \in {Delta(UpdateSpotPrice(delta_up.o, original_spot - H),
                                         delta_up.ed)}})
               : delta_up \in {Delta(UpdateSpotPrice(o, original_spot + H), ed)}})

\* self.risk_free_rate = r; self._setup_quantlib() (lines 178-179, 182-183,
\* 186-187).
SetRate(o, ed, r) == SetupQuantlib([o EXCEPT !.risk_free_rate = r], ed)

\* The setter a fallback bumps with: update_volatility in vega, the
\* assignment and _setup_quantlib in rho.
SetField(o, ed, field, x) ==
    IF field = "volatility" THEN UpdateVolatility(o, ed, x) ELSE SetRate(o, ed, x)

\* The shape vega and rho share: set the bumped-up value and reprice, set the
\* bumped-down value and reprice, set the original value.
BumpReprice(o, ed, original, field) ==
    Only({
      IF u1.exc # NoExc THEN u1
      ELSE Only({
        IF price_up.exc # NoExc THEN price_up
        ELSE Only({
          IF u2.exc # NoExc THEN u2
          ELSE Only({
            IF price_down.exc # NoExc THEN price_down
            ELSE Only({
              IF u3.exc # NoExc THEN u3
              ELSE Out(u3.o, u3.ed, QDiv(QSub(price_up.val, price_down.val), Q(2)),
                       NoExc)
              : u3 \in {SetField(price_down.o, price_down.ed, field, original)}})
            : price_down \in {NPV(u2.o, u2.ed)}})
          : u2 \in {SetField(price_up.o, price_up.ed, field, original - H)}})
        : price_up \in {NPV(u1.o, u1.ed)}})
      : u1 \in {SetField(o, ed, field, original + H)}})

\* vega (lines 144-157).
Vega(o, ed) ==
    IF AnalyticOK(o, ed, "vega")
    THEN Out(o, ed, AnalyticGreek(o, ed, "vega"), NoExc)
    ELSE BumpReprice(o, ed, o.volatility, "volatility")

\* theta (lines 159-171): the bump is on the process-wide evaluation date.
Theta(o, ed) ==
    IF AnalyticOK(o, ed, "theta")
    THEN Out(o, ed, AnalyticGreek(o, ed, "theta"), NoExc)
    ELSE LET current_date == ed
         IN  Only({
               IF price_tomorrow.exc # NoExc THEN price_tomorrow
               ELSE Only({
                 IF price_today.exc # NoExc THEN price_today
                 ELSE Out(o, current_date,
                          QSub(price_tomorrow.val, price_today.val), NoExc)
                 : price_today \in {NPV(o, current_date)}})
               : price_tomorrow \in {NPV(o, current_date + 1)}})

\* rho (lines 173-189).
Rho(o, ed) ==
    IF AnalyticOK(o, ed, "rho")
    THEN Out(o, ed, AnalyticGreek(o, ed, "rho"), NoExc)
    ELSE BumpReprice(o, ed, o.risk_free_rate, "risk_free_rate")

\* price() and the five Greeks by name.
Metric(o, ed, m) ==
    CASE m = "price" -> NPV(o, ed)
      [] m = "delta" -> Delta(o, ed)
      [] m = "gamma" -> Gamma(o, ed)
      [] m = "vega" -> Vega(o, ed)
      [] m = "theta" -> Theta(o, ed)
      [] OTHER -> Rho(o, ed)

Metrics == {"price"} \cup Greeks

-----------------------------------------------------------------------------
(* OptionPosition.                                                         *)

\* OptionPosition.__init__ (lines 14-33).
Position(option, quantity, contract_size, symbol) ==
    [quantity |-> quantity, option |-> option,
     contract_size |-> contract_size, symbol |-> symbol]

\* position_value / position_delta / ... (lines 35-62): the per-share metric
\* times quantity times contract size.  Returns the position after the call
\* (its engine may have been bumped), the evaluation date, value, exception.
PositionMetric(p, ed, m) ==
    Only({[ed |-> r.ed,
           val |-> QMul(QMul(r.val, Q(p.quantity)), Q(p.contract_size)),
           exc |-> r.exc, p |-> [p EXCEPT !.option = r.o]]
          : r \in {Metric(p.option, ed, m)}})

-----------------------------------------------------------------------------
(* OptionPortfolio.  A method is an operator from the portfolio (a record  *)
(* of its fields plus the process-wide evaluation date) to Ret(portfolio   *)
(* after the call, value returned, exception raised).                      *)

Self ==
    [positions |-> positions, underlying_quantity |-> underlying_quantity,
     spot_price |-> spot_price, volatility |-> volatility,
     risk_free_rate |-> risk_free_rate, dividend_yield |-> dividend_yield,
     valuation_date |-> valuation_date, evaluationDate |-> evaluationDate]

Ret(s, val, exc) == [s |-> s, val |-> val, exc |-> exc]

\* add_position (lines 142-158).
add_position(s, strike_price, maturity_date, quantity, option_type, symbol, contract_size) ==
    Only({
      IF r.exc # NoExc THEN Ret([s EXCEPT !.evaluationDate = r.ed], Q(0), r.exc)
      ELSE Ret([s EXCEPT !.evaluationDate = r.ed,
                         !.positions =
                            Append(@, Position(r.o, quantity, contract_size, symbol))],
               Q(0), NoExc)
      : r \in {NewOption(s.spot_price, strike_price, maturity_date, s.volatility,
                         s.risk_free_rate, s.dividend_yield, option_type,
                         s.valuation_date, s.evaluationDate)}})

\* sum(pos.position_<m>() for pos in self.positions): left to right from 0;
\* an exception ends the sum and leaves what the calls before it changed.
RECURSIVE SumFrom(_, _, _, _)
SumFrom(s, m, i, acc) ==
    IF i > Len(s.positions) THEN Ret(s, acc, NoExc)
    ELSE Only({
           IF r.exc # NoExc
           THEN Ret([s EXCEPT !.positions[i] = r.p, !.evaluationDate = r.ed],
                    Q(0), r.exc)
           ELSE SumFrom([s EXCEPT !.positions[i] = r.p, !.evaluationDate = r.ed],
                        m, i + 1, QAdd(acc, r.val))
           : r \in {PositionMetric(s.positions[i], s.evaluationDate, m)}})

\* total_value, total_delta, total_gamma, total_vega, total_theta, total_rho
\* (lines 160-190), by the metric summed.
Total(s, m) == SumFrom(s, m, 1, Q(0))

total_value(s) == Total(s, "price")
total_delta(s) == Total(s, "delta")
total_gamma(s) == Total(s, "gamma")
total_vega(s) == Total(s, "vega")
total_theta(s) == Total(s, "theta")
total_rho(s) == Total(s, "rho")

\* net_delta with the underlying position left out of the sum.
net_delta_of_options_only(s) == total_delta(s)

\* net_delta (lines 192-199).
net_delta(s) ==
    Only({IF t.exc # NoExc THEN t
          ELSE Ret(t.s, QAdd(t.val, Q(s.underlying_quantity)), NoExc)
          : t \in {total_delta(s)}})

\* The float division of line 210: a zero divisor raises.
TrueDiv(a, b) ==
    IF b[1] = 0 THEN [val |-> Q(0), exc |-> "ZeroDivisionError"]
    ELSE [val |-> QDiv(a, b), exc |-> NoExc]

\* hedge_ratio without the guard of lines 208-209.
hedge_ratio_unguarded(s) ==
    Only({
      IF t.exc # NoExc THEN t
      ELSE Only({IF d.exc # NoExc THEN Ret(t.s, Q(0), d.exc)
                 ELSE Ret(t.s, QMul(QNeg(d.val), Q(PercentScale)), NoExc)
                 : d \in {TrueDiv(t.val, Q(s.underlying_quantity))}})
      : t \in {total_delta(s)}})

\* hedge_ratio (lines 201-210).
hedge_ratio(s) ==
    IF s.underlying_quantity = 0 THEN Ret(s, Q(0), NoExc)
    ELSE Only({
           IF t.exc # NoExc THEN t
           ELSE Only({IF d.exc # NoExc THEN Ret(t.s, Q(0), d.exc)
                      ELSE Ret(t.s, QMul(QNeg(d.val), Q(PercentScale)), NoExc)
                      : d \in {TrueDiv(t.val, Q(s.underlying_quantity))}})
           : t \in {total_delta(s)}})

\* delta_adjustment_needed (lines 212-219).
delta_adjustment_needed(s) ==
    Only({IF n.exc # NoExc THEN n ELSE Ret(n.s, QNeg(n.val), NoExc)
          : n \in {net_delta(s)}})

\* self.positions.pop(index) for an index the caller has checked (line 271).
RemoveAt(seq, i) == [k \in 1..(Len(seq) - 1) |-> IF k < i THEN seq[k] ELSE seq[k + 1]]

\* remove_position with the lower half of its range check left out.
remove_position_upper_check_only(s, index) ==
    IF index >= Len(s.positions)
    THEN Ret(s, Q(0), "IndexError")
    ELSE Ret([s EXCEPT !.positions = RemoveAt(@, index + 1)], Q(0), NoExc)

\* remove_position (lines 267-271).
remove_position(s, index) ==
    IF index < 0 \/ index >= Len(s.positions)
    THEN Ret(s, Q(0), "IndexError")
    ELSE Ret([s EXCEPT !.positions = RemoveAt(@, index + 1)], Q(0), NoExc)

\* clear_positions (lines 891-893).
clear_positions(s) == Ret([s EXCEPT !.positions = <<>>], Q(0), NoExc)

\* The comparison of update_position with the option type left out.
TermsDifferIgnoringType(pos, strike_price, maturity_date, opt_type) ==
    \/ strike_price # pos.option.strike_price
    \/ maturity_date # pos.option.maturity_date

\* update_position, the condition under which it constructs a new engine
\* (lines 298-302): the values are compared as given, the option type before
\* the constructor lower-cases it.
TermsDiffer(pos, strike_price, maturity_date, opt_type) ==
    \/ strike_price # pos.option.strike_price
    \/ maturity_date # pos.option.maturity_date
    \/ opt_type # pos.option.option_type

\* update_position that writes the kind it was given into the position's
\* engine instead of constructing a new engine.
update_position_retype(s, index, quantity, strike, expiry, option_type, symbol, contract_size) ==
    IF index < 0 \/ index >= Len(s.positions)
    THEN Ret(s, Q(0), "IndexError")
    ELSE Ret([s EXCEPT !.positions[index + 1].option.option_type =
                          IF option_type # None THEN option_type[1] ELSE @],
             Q(0), IF option_type # None /\ option_type[1] \notin {"call", "put"}
                   THEN "ValueError" ELSE NoExc)

\* update_position (lines 284-313).  The value returned by the model is 1 when
\* pos.option was assigned a newly constructed engine and 0 when it was not.
update_position(s, index, quantity, strike, expiry, option_type, symbol, contract_size) ==
    IF index < 0 \/ index >= Len(s.positions)
    THEN Ret(s, Q(0), "IndexError")
    ELSE LET i == index + 1
             pos == s.positions[i]
             p1 == [pos EXCEPT
                      !.quantity = IF quantity # None THEN quantity[1] ELSE @,
                      !.contract_size = IF contract_size # None
                                        THEN contract_size[1] ELSE @,
                      !.symbol = IF symbol # None THEN symbol[1] ELSE @]
             strike_price == IF strike # None THEN strike[1]
                             ELSE pos.option.strike_price
             maturity_date == IF expiry # None THEN expiry[1]
                              ELSE pos.option.maturity_date
             opt_type == IF option_type # None THEN option_type[1]
                         ELSE pos.option.option_type
             s1 == [s EXCEPT !.positions[i] = p1]
         IN  IF TermsDiffer(pos, strike_price, maturity_date, opt_type)
             THEN Only({
                    IF r.exc # NoExc
                    THEN Ret([s1 EXCEPT !.evaluationDate = r.ed], Q(0), r.exc)
                    ELSE Ret([s1 EXCEPT !.evaluationDate = r.ed,
                                        !.positions[i].option = r.o],
                             Q(1), NoExc)
                    : r \in {NewOption(s.spot_price, strike_price, maturity_date,
                                       s.volatility, s.risk_free_rate,
                                       s.dividend_yield, opt_type,
                                       s.valuation_date, s.evaluationDate)}})
             ELSE Ret(s1, Q(0), NoExc)

\* update_market_conditions, "if spot_price is not None" (lines 346-349).
ApplySpot(s, spot) ==
    [s EXCEPT !.spot_price = spot,
              !.positions = [k \in DOMAIN @ |->
                               [@[k] EXCEPT !.option = UpdateSpotPrice(@, spot)]]]

\* update_market_conditions, "if volatility is not None" (lines 351-354),
\* from the i-th position on.
RECURSIVE ApplyVolFrom(_, _, _)
ApplyVolFrom(s, vol, i) ==
    IF i > Len(s.positions) THEN Ret(s, Q(0), NoExc)
    ELSE Only({
           IF r.exc # NoExc
           THEN Ret([s EXCEPT !.positions[i].option = r.o, !.evaluationDate = r.ed],
                    Q(0), r.exc)
           ELSE ApplyVolFrom([s EXCEPT !.positions[i].option = r.o,
                                       !.evaluationDate = r.ed],
                             vol, i + 1)
           : r \in {UpdateVolatility(s.positions[i].option, s.evaluationDate, vol)}})

\* update_market_conditions, "if valuation_date is not None" (lines 356-359):
\* AmericanOption defines no update_valuation_date, so the first position
\* raises AttributeError.
ApplyDate(s, vdate) ==
    LET s1 == [s EXCEPT !.valuation_date = vdate]
    IN  IF Len(s.positions) > 0 THEN Ret(s1, Q(0), "AttributeError")
        ELSE Ret(s1, Q(0), NoExc)

\* update_market_conditions, "Recreate all positions with new rates" (lines
\* 368-382), from the i-th position on; new_positions is the list built so far.
RECURSIVE RecreateFrom(_, _, _)
RecreateFrom(s, i, new_positions) ==
    IF i > Len(s.positions) THEN Ret([s EXCEPT !.positions = new_positions],
                                     Q(0), NoExc)
    ELSE LET pos == s.positions[i]
         IN  Only({
               IF r.exc # NoExc
               THEN Ret([s EXCEPT !.evaluationDate = r.ed], Q(0), r.exc)
               ELSE RecreateFrom([s EXCEPT !.evaluationDate = r.ed], i + 1,
                                 Append(new_positions,
                                        Position(r.o, pos.quantity,
                                                 pos.contract_size, "UNKNOWN")))
               : r \in {NewOption(s.spot_price, pos.option.strike_price,
                                  pos.option.maturity_date, s.volatility,
                                  s.risk_free_rate, s.dividend_yield,
                                  pos.option.option_type, s.valuation_date,
                                  s.evaluationDate)}})

\* update_market_conditions (lines 328-382).
update_market_conditions(s, spot, vol, rate, div, vdate) ==
    Only({
      IF b.exc # NoExc THEN b
      ELSE Only({
        IF c.exc # NoExc THEN c
        ELSE IF rate # None \/ div # None
        THEN RecreateFrom(
               [c.s EXCEPT
                  !.risk_free_rate = IF rate # None THEN rate[1] ELSE @,
                  !.dividend_yield = IF div # None THEN div[1] ELSE @],
               1, <<>>)
        ELSE c
        : c \in {IF vdate # None THEN ApplyDate(b.s, vdate[1]) ELSE b}})
      : b \in {IF vol # None
               THEN ApplyVolFrom(
                      [(IF spot # None THEN ApplySpot(s, spot[1]) ELSE s)
                         EXCEPT !.volatility = vol[1]],
                      vol[1], 1)
               ELSE Ret(IF spot # None THEN ApplySpot(s, spot[1]) ELSE s,
                        Q(0), NoExc)}})

\* The aggregates one row of scenario_analysis evaluates, in order (lines
\* 410-414): total_value, total_delta, net_delta (total_delta again),
\* total_gamma, total_vega.
RowMetrics == <<"price", "delta", "delta", "gamma", "vega">>

RECURSIVE EvalRow(_, _)
EvalRow(s, k) ==
    IF k > Len(RowMetrics) THEN Ret(s, Q(0), NoExc)
    ELSE Only({IF r.exc # NoExc THEN r ELSE EvalRow(r.s, k + 1)
               : r \in {Total(s, RowMetrics[k])}})

\* The loops of scenario_analysis (lines 403-433) over the grid points
\* <<spot, vol>> (vol is None in the single-volatility sweep), from the k-th.
RECURSIVE Sweep(_, _, _)
Sweep(s, pts, k) ==
    IF k > Len(pts) THEN Ret(s, Q(0), NoExc)
    ELSE Only({
           IF u.exc # NoExc THEN u
           ELSE Only({IF r.exc # NoExc THEN r ELSE Sweep(r.s, pts, k + 1)
                      : r \in {EvalRow(u.s, 1)}})
           : u \in {update_market_conditions(s, pts[k][1], pts[k][2], None, None,
                                             None)}})

\* The grid in the order the loops visit it.
RECURSIVE GridPoints(_, _, _, _)
GridPoints(spot_range, vol_range, i, j) ==
    IF i > Len(spot_range) THEN <<>>
    ELSE IF vol_range = None
    THEN <<<<Some(spot_range[i]), None>>>>
           \o GridPoints(spot_range, vol_range, i + 1, 1)
    ELSE IF j > Len(vol_range[1]) THEN GridPoints(spot_range, vol_range, i + 1, 1)
    ELSE <<<<Some(spot_range[i]), Some(vol_range[1][j])>>>>
           \o GridPoints(spot_range, vol_range, i, j + 1)

\* scenario_analysis (lines 397-437).
scenario_analysis(s, spot_range, vol_range) ==
    LET original_spot == s.spot_price
        original_vol == s.volatility
    IN  Only({
          IF w.exc # NoExc THEN w
          ELSE update_market_conditions(w.s, Some(original_spot),
                                        Some(original_vol), None, None, None)
          : w \in {Sweep(s, GridPoints(spot_range, vol_range, 1, 1), 1)}})

-----------------------------------------------------------------------------
(* Risk/reward analysis.  A spot at expiry is a rational; a grid is a       *)
(* sequence of them.                                                        *)

QLt(a, b) == a[1] * b[2] < b[1] * a[2]

\* max(a, b) of Python on two numbers.
QMax(a, b) == IF QLt(a, b) THEN b ELSE a

\* float('-inf'): smaller than every number under QLt.
NegInf == <<-1, 0>>

\* calculate_net_debit (lines 439-446).
calculate_net_debit(s) == total_value(s)

\* The intrinsic value at expiry of one position (lines 466-469).
IntrinsicAtExpiry(pos, spot_price_at_expiry) ==
    IF Lower(pos.option.option_type) = "call"
    THEN QMax(Q(0), QSub(spot_price_at_expiry, Q(pos.option.strike_price)))
    ELSE QMax(Q(0), QSub(Q(pos.option.strike_price), spot_price_at_expiry))

\* The loop of calculate_pnl_at_expiry (lines 465-471) from the i-th position.
RECURSIVE PayoffFrom(_, _, _, _)
PayoffFrom(s, spot_price_at_expiry, i, pnl) ==
    IF i > Len(s.positions) THEN pnl
    ELSE PayoffFrom(s, spot_price_at_expiry, i + 1,
                    QAdd(pnl,
                         QMul(QMul(IntrinsicAtExpiry(s.positions[i],
                                                     spot_price_at_expiry),
                                   Q(s.positions[i].quantity)),
                              Q(s.positions[i].contract_size))))

\* calculate_pnl_at_expiry without the initial cost of line 462.
calculate_pnl_at_expiry_gross(s, spot_price_at_expiry, include_underlying) ==
    Only({
      IF t.exc # NoExc THEN t
      ELSE Only({
        IF include_underlying /\ t.s.underlying_quantity # 0
        THEN Ret(t.s,
                 QAdd(pnl, QMul(QSub(spot_price_at_expiry, Q(t.s.spot_price)),
                                Q(t.s.underlying_quantity))),
                 NoExc)
        ELSE Ret(t.s, pnl, NoExc)
        : pnl \in {PayoffFrom(t.s, spot_price_at_expiry, 1, Q(0))}})
      : t \in {total_value(s)}})

\* calculate_pnl_at_expiry as a market shock: the portfolio is moved to the
\* spot at expiry and left there.
calculate_pnl_at_expiry_by_shock(s, spot_price_at_expiry, include_underlying) ==
    Only({
      IF t.exc # NoExc THEN t
      ELSE Only({
        IF include_underlying /\ t.s.underlying_quantity # 0
        THEN Ret(t.s,
                 QAdd(pnl, QMul(QSub(spot_price_at_expiry, Q(s.spot_price)),
                                Q(t.s.underlying_quantity))),
                 NoExc)
        ELSE Ret(t.s, pnl, NoExc)
        : pnl \in {PayoffFrom(t.s, spot_price_at_expiry, 1,
                              QNeg(total_value(s).val))}})
      : t \in {total_value(ApplySpot(s, spot_price_at_expiry[1]
                                          \div spot_price_at_expiry[2]))}})

\* calculate_pnl_at_expiry (lines 461-478).
calculate_pnl_at_expiry(s, spot_price_at_expiry, include_underlying) ==
    Only({
      IF t.exc # NoExc THEN t
      ELSE Only({
        IF include_underlying /\ t.s.underlying_quantity # 0
        THEN Ret(t.s,
                 QAdd(pnl, QMul(QSub(spot_price_at_expiry, Q(t.s.spot_price)),
                                Q(t.s.underlying_quantity))),
                 NoExc)
        ELSE Ret(t.s, pnl, NoExc)
        : pnl \in {PayoffFrom(t.s, spot_price_at_expiry, 1, QNeg(t.val))}})
      : t \in {total_value(s)}})

\* np.linspace(a, b, n) for n >= 2.
Linspace(a, b, n) ==
    [k \in 1..n |-> QAdd(a, QDiv(QMul(Q(k - 1), QSub(b, a)), Q(n - 1)))]

\* The grid a method builds when it is given none (lines 492-496 and the
\* like): from max(0.01, spot * 0.5) to spot * 2.0.
DefaultRange(s) ==
    Linspace(QMax(Q(H), QDiv(Q(s.spot_price), Q(2))), Q(2 * s.spot_price),
             MaxLinspace)

RangeOrDefault(s, spot_range) ==
    IF spot_range = None THEN DefaultRange(s) ELSE spot_range[1]

\* The loop of calculate_max_loss_options / _total (lines 501-505, 572-576)
\* from the k-th grid point; returns <<max_loss, spot_at_max_loss>>.
RECURSIVE LossScan(_, _, _, _, _, _)
LossScan(s, spot_range, k, include_underlying, max_loss, spot_at_max_loss) ==
    IF k > Len(spot_range) THEN Ret(s, <<max_loss, spot_at_max_loss>>, NoExc)
    ELSE Only({
           IF r.exc # NoExc THEN r
           ELSE IF QLt(r.val, max_loss)
           THEN LossScan(r.s, spot_range, k + 1, include_underlying, r.val,
                         spot_range[k])
           ELSE LossScan(r.s, spot_range, k + 1, include_underlying, max_loss,
                         spot_at_max_loss)
           : r \in {calculate_pnl_at_expiry(s, spot_range[k], include_underlying)}})

\* The loop of calculate_max_profit_options / _total (lines 539-543, 614-618).
RECURSIVE ProfitScan(_, _, _, _, _, _)
ProfitScan(s, spot_range, k, include_underlying, max_profit, spot_at_max_profit) ==
    IF k > Len(spot_range) THEN Ret(s, <<max_profit, spot_at_max_profit>>, NoExc)
    ELSE Only({
           IF r.exc # NoExc THEN r
           ELSE IF QLt(max_profit, r.val)
           THEN ProfitScan(r.s, spot_range, k + 1, include_underlying, r.val,
                           spot_range[k])
           ELSE ProfitScan(r.s, spot_range, k + 1, include_underlying, max_profit,
                           spot_at_max_profit)
           : r \in {calculate_pnl_at_expiry(s, spot_range[k], include_underlying)}})

\* The dict the max-loss methods return.
LossResult(r, is_unlimited) ==
    IF r.exc # NoExc THEN r
    ELSE Ret(r.s, [max_loss |-> r.val[1], spot_at_max_loss |-> r.val[2],
                   is_unlimited |-> is_unlimited], NoExc)

\* The dict the max-profit methods return.
ProfitResult(r, is_unlimited) ==
    IF r.exc # NoExc THEN r
    ELSE Ret(r.s, [max_profit |-> r.val[1], spot_at_max_profit |-> r.val[2],
                   is_unlimited |-> is_unlimited], NoExc)

\* calculate_max_loss_options (lines 492-516): has_naked_shorts is computed
\* and not used.
calculate_max_loss_options(s, spot_range) ==
    Only({LossResult(r, FALSE)
          : r \in {LossScan(s, RangeOrDefault(s, spot_range), 1, FALSE, Q(0),
                            Q(s.spot_price))}})

\* calculate_max_profit_options (lines 530-549).
calculate_max_profit_options(s, spot_range) ==
    Only({ProfitResult(r, FALSE)
          : r \in {ProfitScan(s, RangeOrDefault(s, spot_range), 1, FALSE, NegInf,
                              Q(s.spot_price))}})

\* calculate_max_loss_total with the flag taken from has_naked_shorts as well.
calculate_max_loss_total_naked_shorts(s, spot_range) ==
    Only({LossResult(r, s.underlying_quantity < 0
                          \/ \E i \in 1..Len(s.positions) : s.positions[i].quantity < 0)
          : r \in {LossScan(s, RangeOrDefault(s, spot_range), 1, TRUE, Q(0),
                            Q(s.spot_price))}})

\* calculate_max_loss_total (lines 563-591).
calculate_max_loss_total(s, spot_range) ==
    Only({LossResult(r, s.underlying_quantity < 0)
          : r \in {LossScan(s, RangeOrDefault(s, spot_range), 1, TRUE, Q(0),
                            Q(s.spot_price))}})

\* calculate_max_profit_total (lines 605-630).
calculate_max_profit_total(s, spot_range) ==
    Only({ProfitResult(r, s.underlying_quantity > 0)
          : r \in {ProfitScan(s, RangeOrDefault(s, spot_range), 1, TRUE, NegInf,
                              Q(s.spot_price))}})

\* The test of line 659 on two consecutive samples.
SignChange(prev_pnl, pnl) ==
    \/ QLt(prev_pnl, Q(0)) /\ ~QLt(pnl, Q(0))
    \/ QLt(Q(0), prev_pnl) /\ ~QLt(Q(0), pnl)

\* The loop of calculate_breakeven_points (lines 654-663) from the k-th grid
\* point; prev_pnl is None before the first sample.
RECURSIVE BreakevenScan(_, _, _, _, _, _)
BreakevenScan(s, spot_range, k, include_underlying, prev_pnl, breakeven_points) ==
    IF k > Len(spot_range) THEN Ret(s, breakeven_points, NoExc)
    ELSE Only({
           IF r.exc # NoExc THEN r
           ELSE BreakevenScan(r.s, spot_range, k + 1, include_underlying,
                              Some(r.val),
                              IF prev_pnl # None /\ SignChange(prev_pnl[1], r.val)
                              THEN Append(breakeven_points, spot_range[k])
                              ELSE breakeven_points)
           : r \in {calculate_pnl_at_expiry(s, spot_range[k], include_underlying)}})

\* calculate_breakeven_points (lines 645-665).
calculate_breakeven_points(s, spot_range, include_underlying) ==
    BreakevenScan(s, RangeOrDefault(s, spot_range), 1, include_underlying, None, <<>>)

\* min(pos.option.maturity_date for pos in self.positions) (line 692).
MinMaturity(ps) ==
    CHOOSE m \in {ps[i].option.maturity_date : i \in 1..Len(ps)} :
       \A i \in 1..Len(ps) : m <= ps[i].option.maturity_date

\* days_to_expiry as lines 687-693 determine it.
DaysToExpiry(s, days_to_expiry) ==
    IF days_to_expiry # None THEN days_to_expiry[1]
    ELSE IF s.positions = <<>> THEN DefaultDays
    ELSE Max(1, MinMaturity(s.positions) - s.valuation_date)

\* Stand-in for the terminal spot of lines 705-707,
\* spot * exp((r - q - vol^2 / 2) * T + vol * sqrt(T) * z): a function of the
\* same fields, the time to expiry and the variate z.
FinalSpot(s, days, z) ==
    Q(s.spot_price + (s.risk_free_rate - s.dividend_yield) * days
        + s.volatility * days * z)

\* The loop of lines 702-714 from the k-th simulation; variates is what
\* np.random.standard_normal() yields, call by call.  Returns
\* <<profitable_count, total_pnl>>.
RECURSIVE Simulate(_, _, _, _, _, _, _, _)
Simulate(s, k, num_simulations, include_underlying, days, variates, profitable_count, total_pnl) ==
    IF k > num_simulations THEN Ret(s, <<profitable_count, total_pnl>>, NoExc)
    ELSE Only({
           IF r.exc # NoExc THEN r
           ELSE Simulate(r.s, k + 1, num_simulations, include_underlying, days,
                         variates,
                         IF QLt(Q(0), r.val) THEN profitable_count + 1
                         ELSE profitable_count,
                         QAdd(total_pnl, r.val))
           : r \in {calculate_pnl_at_expiry(s, FinalSpot(s, days, variates[k]),
                                            include_underlying)}})

\* Lines 697-723 with the total P&L reported as the expected value.
EstimateWithTotalPnl(s, method, num_simulations, include_underlying, days, variates) ==
    IF method # "monte_carlo" THEN Ret(s, <<Norm(1, 2), Q(0)>>, NoExc)
    ELSE Only({
           IF r.exc # NoExc THEN r
           ELSE Only({
             IF d.exc # NoExc THEN Ret(r.s, Q(0), d.exc)
             ELSE Ret(r.s, <<d.val, r.val[2]>>, NoExc)
             : d \in {TrueDiv(Q(r.val[1]), Q(num_simulations))}})
           : r \in {Simulate(s, 1, num_simulations, include_underlying, days,
                             variates, 0, Q(0))}})

\* Lines 697-723: <<probability, expected_value>> by the method asked for.
Estimate(s, method, num_simulations, include_underlying, days, variates) ==
    IF method # "monte_carlo" THEN Ret(s, <<Norm(1, 2), Q(0)>>, NoExc)
    ELSE Only({
           IF r.exc # NoExc THEN r
           ELSE Only({
             IF d.exc # NoExc THEN Ret(r.s, Q(0), d.exc)
             ELSE Ret(r.s, <<d.val, QDiv(r.val[2], Q(num_simulations))>>, NoExc)
             : d \in {TrueDiv(Q(r.val[1]), Q(num_simulations))}})
           : r \in {Simulate(s, 1, num_simulations, include_underlying, days,
                             variates, 0, Q(0))}})

\* calculate_probability_of_profit (lines 686-732).
calculate_probability_of_profit(s, method, num_simulations, include_underlying, days_to_expiry, variates) ==
    Only({
      IF e.exc # NoExc THEN e
      ELSE Only({
        IF b.exc # NoExc THEN b
        ELSE Ret(b.s, [breakeven_points |-> b.val, probability |-> e.val[1],
                       expected_value |-> e.val[2]], NoExc)
        : b \in {calculate_breakeven_points(e.s, None, include_underlying)}})
      : e \in {Estimate(s, method, num_simulations, include_underlying,
                        DaysToExpiry(s, days_to_expiry), variates)}})

\* The calls of risk_reward_analysis in the order it makes them (lines
\* 749-766).
RiskStep(s, k, spot_range, num_simulations, variates) ==
    CASE k = 1 -> calculate_net_debit(s)
      [] k = 2 -> calculate_max_loss_options(s, spot_range)
      [] k = 3 -> calculate_max_profit_options(s, spot_range)
      [] k = 4 -> calculate_breakeven_points(s, spot_range, FALSE)
      [] k = 5 -> calculate_max_loss_total(s, spot_range)
      [] k = 6 -> calculate_max_profit_total(s, spot_range)
      [] k = 7 -> calculate_breakeven_points(s, spot_range, TRUE)
      [] OTHER -> calculate_probability_of_profit(s, "monte_carlo", num_simulations,
                                                  TRUE, None, variates)

\* The calls from the k-th on; acc holds what the earlier ones returned.
RECURSIVE RiskSteps(_, _, _, _, _, _)
RiskSteps(s, k, spot_range, num_simulations, variates, acc) ==
    IF k > 8 THEN Ret(s, acc, NoExc)
    ELSE Only({
           IF r.exc # NoExc THEN r
           ELSE RiskSteps(r.s, k + 1, spot_range, num_simulations, variates,
                          Append(acc, r.val))
           : r \in {RiskStep(s, k, spot_range, num_simulations, variates)}})

\* risk_reward_analysis (lines 749-778).
risk_reward_analysis(s, spot_range, num_simulations, variates) ==
    Only({
      IF r.exc # NoExc THEN r
      ELSE Ret(r.s,
               [expected_value |-> r.val[8].expected_value,
                net_debit |-> r.val[1], max_loss_options |-> r.val[2],
                max_profit_options |-> r.val[3], breakeven_options |-> r.val[4],
                max_loss_total |-> r.val[5], max_profit_total |-> r.val[6],
                breakeven_total |-> r.val[7],
                probability_of_profit |-> r.val[8].probability], NoExc)
      : r \in {RiskSteps(s, 1, spot_range, num_simulations, variates, <<>>)}})

-----------------------------------------------------------------------------
(* The state machine.  The calls are the same in every specification; the  *)
(* specifications differ in which calls they issue and from which inputs.  *)

Opt(S) == {None} \cup {Some(x) : x \in S}

\* How far a failed vega or rho fallback has left the engine from a value
\* it was given.
Dist(x, S) == CHOOSE d \in {Abs(x - v) : v \in S} :
                 \A e \in {Abs(x - v) : v \in S} : d <= e

Drift(o) ==
    Dist(o.volatility, {InitVol} \cup VolInputs)
      + Dist(o.risk_free_rate, {InitRate} \cup RateInputs)

\* A call returned or raised: the portfolio's fields and the evaluation date
\* are what the method left, and `last` records the call.
Commit(r, op) ==
    /\ positions' = r.s.positions
    /\ underlying_quantity' = r.s.underlying_quantity
    /\ spot_price' = r.s.spot_price
    /\ volatility' = r.s.volatility
    /\ risk_free_rate' = r.s.risk_free_rate
    /\ dividend_yield' = r.s.dividend_yield
    /\ valuation_date' = r.s.valuation_date
    /\ evaluationDate' = r.s.evaluationDate
    /\ last' = [val |-> r.val, exc |-> r.exc, op |-> op]
    /\ UNCHANGED <<optA, optB, provided, threads>>

\* No thread is inside a method of the portfolio.  wpc, wnext and wspot are
\* the writer's position in update_market_conditions, the index of the
\* engine it updates next and its argument; rpc, rnext, rgetter and racc the
\* reader's position in a getter, the index of the position it reads next,
\* the getter and the sum so far; seen lists the spot of each engine at the
\* moment the reader's current or last call read it.
Idle ==
    [wpc |-> "idle", wnext |-> 0, wspot |-> 0, rpc |-> "idle", rnext |-> 0,
     rgetter |-> "", racc |-> Q(0), seen |-> <<>>]

\* OptionPortfolio.__init__ (lines 114-120) with the defaults of its
\* signature; the evaluation date of a fresh process is today.
NewPortfolio(quantities, profiles) ==
    /\ positions = <<>>
    /\ underlying_quantity \in quantities
    /\ spot_price = InitSpot
    /\ volatility = InitVol
    /\ risk_free_rate = InitRate
    /\ dividend_yield = InitDiv
    /\ valuation_date = InitDate
    /\ evaluationDate = InitDate
    /\ optA = None
    /\ optB = None
    /\ provided \in profiles
    /\ last = [val |-> Q(0), exc |-> NoExc, op |-> "init"]
    /\ threads = Idle

Init == NewPortfolio({0}, {FdProvided})

\* add_position; the list is kept to MaxPos positions, a call that raises
\* adds none.
AddPosition ==
    \E c \in ContractInputs, size \in SizeInputs :
       /\ Commit(add_position(Self, c.strike, c.maturity, c.quantity, c.kind, "X",
                              size),
                 "add_position")
       /\ Len(positions') <= MaxPos

RemovePosition ==
    \E index \in -1..MaxPos : Commit(remove_position(Self, index), "remove_position")

ClearPositions == Commit(clear_positions(Self), "clear_positions")

\* update_position with every argument given.
UpdatePosition ==
    \E index \in -1..MaxPos, c \in ContractInputs, size \in SizeInputs :
         Commit(update_position(Self, index, Some(c.quantity), Some(c.strike),
                                Some(c.maturity), Some(c.kind), Some("X"),
                                Some(size)),
                "update_position")

\* The argument lists of update_market_conditions: nothing given, one
\* argument given, or all of them.
MarketInputs ==
    {<<None, None, None, None, None>>}
      \cup {<<Some(x), None, None, None, None>> : x \in SpotInputs}
      \cup {<<None, Some(v), None, None, None>> : v \in VolInputs}
      \cup {<<None, None, Some(r), None, None>> : r \in RateInputs}
      \cup {<<None, None, None, Some(q), None>> : q \in DivInputs}
      \cup {<<None, None, None, None, Some(d)>> : d \in DateInputs}
      \cup {<<Some(x), Some(v), Some(r), Some(q), Some(d)>> :
               x \in SpotInputs \ {0}, v \in VolInputs, r \in RateInputs,
               q \in DivInputs, d \in DateInputs}

UpdateMarketConditions ==
    \E a \in MarketInputs :
         Commit(update_market_conditions(Self, a[1], a[2], a[3], a[4], a[5]),
                "update_market_conditions")

Ranges(S) == UNION {[1..n -> S] : n \in 0..MaxGrid}

ScenarioAnalysis ==
    \E spot_range \in Ranges(SpotInputs), vol_range \in Opt(Ranges(VolInputs)) :
         Commit(scenario_analysis(Self, spot_range, vol_range), "scenario_analysis")

Next ==
    \/ AddPosition
    \/ RemovePosition
    \/ ClearPositions
    \/ UpdatePosition
    \/ UpdateMarketConditions
    \/ ScenarioAnalysis

Spec == Init /\ [][Next]_vars

-----------------------------------------------------------------------------
(* Editing positions: update_position from every shape of argument list.   *)

\* Which of quantity, contract_size and symbol a call gives: none or all.
LabelInputs ==
    {<<None, None, None>>, <<Some(5), Some(DefaultContractSize), Some(CustomSymbol)>>}

\* Which of strike, expiry and option_type a call gives: none, or one of them.
TermInputs ==
    {<<None, None, None>>}
      \cup {<<Some(k), None, None>> : k \in Strikes}
      \cup {<<None, Some(m), None>> : m \in Maturities}
      \cup {<<None, None, Some(t)>> : t \in {"put", "CALL", "fx"}}

UpdatePositionArgs ==
    \E index \in -1..Len(positions), l \in LabelInputs, c \in TermInputs :
         Commit(update_position(Self, index, l[1], c[1], c[2], c[3], l[3], l[2]),
                "update_position")

\* add_position of a call, or of a kind that is neither call nor put.
AddOnePosition ==
    /\ Len(positions) < MaxPos
    /\ \E size \in SizeInputs, kind \in {"call"} \cup InvalidKinds :
         Commit(add_position(Self, 10100, 3, -1, kind, "X", size),
                "add_position")

NextEdit ==
    \/ AddOnePosition
    \/ RemovePosition
    \/ UpdatePositionArgs

SpecEdit == Init /\ [][NextEdit]_vars

-----------------------------------------------------------------------------
(* Reading aggregates: the getters of a portfolio whose positions may have *)
(* been created under different valuation dates.                           *)

GetterNames ==
    {"total_value", "total_delta", "total_gamma", "total_vega", "total_theta",
     "total_rho", "net_delta", "hedge_ratio", "delta_adjustment_needed"}

Getter(s, name) ==
    CASE name = "total_value" -> total_value(s)
      [] name = "total_delta" -> total_delta(s)
      [] name = "total_gamma" -> total_gamma(s)
      [] name = "total_vega" -> total_vega(s)
      [] name = "total_theta" -> total_theta(s)
      [] name = "total_rho" -> total_rho(s)
      [] name = "net_delta" -> net_delta(s)
      [] name = "hedge_ratio" -> hedge_ratio(s)
      [] OTHER -> delta_adjustment_needed(s)

\* A getter is called on a portfolio none of whose engines a failed fallback
\* has left MaxDrift bumps away.
CallGetter ==
    /\ \A i \in 1..Len(positions) : Drift(positions[i].option) < MaxDrift
    /\ \E name \in GetterNames : Commit(Getter(Self, name), name)

AddContract ==
    \E c \in ContractInputs \ {Contract(10100, 3, "CALL", -1)}, size \in SizeInputs :
       /\ Commit(add_position(Self, c.strike, c.maturity, c.quantity, c.kind, "X",
                              size),
                 "add_position")
       /\ Len(positions') <= MaxPos

MoveSpotOrDate ==
    \E spot \in Opt({0}), vdate \in Opt(DateInputs) :
         Commit(update_market_conditions(Self, spot, None, None, None, vdate),
                "update_market_conditions")

InitAgg == NewPortfolio(UnderlyingInputs, {FdProvided, {}})

NextAgg ==
    \/ AddContract
    \/ MoveSpotOrDate
    \/ CallGetter

SpecAgg == InitAgg /\ [][NextAgg]_vars

-----------------------------------------------------------------------------
(* Risk/reward analysis of a portfolio with or without underlying.         *)

\* Ascending grids of at most MaxSamples of the spots at expiry.
Ascending(seq) ==
    \A k \in 1..(Len(seq) - 1) : seq[k] < seq[k + 1]

SpotGrids ==
    {[k \in DOMAIN g |-> Q(g[k])] :
       g \in {f \in UNION {[1..n -> ExpirySpots] : n \in 0..MaxSamples} : Ascending(f)}}

\* What np.random.standard_normal() yields over the calls of one run, of at
\* most MaxSims simulations.
VariateStreams == UNION {[1..n -> Variates] : n \in 0..MaxSims}

\* The methods of the risk/reward analysis.
RiskNames ==
    {"calculate_net_debit", "calculate_pnl_at_expiry", "calculate_max_loss_options",
     "calculate_max_profit_options", "calculate_max_loss_total",
     "calculate_max_profit_total", "calculate_breakeven_points",
     "calculate_probability_of_profit", "risk_reward_analysis"}

\* A risk/reward call returned or raised; `last` records its arguments too.
\* The call is made on a portfolio as a call of another kind left it: asked
\* again of what an analysis left, it is the same call if the analysis
\* changed nothing, which every step is checked for.
CommitRisk(r, op, args) ==
    /\ last.op \notin RiskNames
    /\ positions' = r.s.positions
    /\ underlying_quantity' = r.s.underlying_quantity
    /\ spot_price' = r.s.spot_price
    /\ volatility' = r.s.volatility
    /\ risk_free_rate' = r.s.risk_free_rate
    /\ dividend_yield' = r.s.dividend_yield
    /\ valuation_date' = r.s.valuation_date
    /\ evaluationDate' = r.s.evaluationDate
    /\ last' = [val |-> r.val, exc |-> r.exc, op |-> op, args |-> args]
    /\ UNCHANGED <<optA, optB, provided, threads>>

AddCallOrPut ==
    \E c \in {Contract(10100, 3, "call", -1), Contract(10100, 1, "put", 2)} :
       /\ Commit(add_position(Self, c.strike, c.maturity, c.quantity, c.kind, "X",
                              DefaultContractSize),
                 "add_position")
       /\ Len(positions') <= MaxPos

\* The spot moves to a value under which no unexpired option can be priced.
MoveSpot ==
    \E spot \in SpotInputs \cap BadSpots :
         Commit(update_market_conditions(Self, Some(spot), None, None, None, None),
                "update_market_conditions")

CalculateNetDebit == CommitRisk(calculate_net_debit(Self), "calculate_net_debit", <<>>)

CalculatePnlAtExpiry ==
    \E spot \in ExpirySpots, include_underlying \in BOOLEAN :
         CommitRisk(calculate_pnl_at_expiry(Self, Q(spot), include_underlying),
                    "calculate_pnl_at_expiry", <<Q(spot), include_underlying>>)

ExtremeNames ==
    {"calculate_max_loss_options", "calculate_max_profit_options",
     "calculate_max_loss_total", "calculate_max_profit_total"}

Extreme(s, name, spot_range) ==
    CASE name = "calculate_max_loss_options" -> calculate_max_loss_options(s, spot_range)
      [] name = "calculate_max_profit_options" ->
            calculate_max_profit_options(s, spot_range)
      [] name = "calculate_max_loss_total" -> calculate_max_loss_total(s, spot_range)
      [] OTHER -> calculate_max_profit_total(s, spot_range)

CalculateExtreme ==
    \E name \in ExtremeNames, spot_range \in Opt(SpotGrids) :
         CommitRisk(Extreme(Self, name, spot_range), name, <<spot_range>>)

CalculateBreakevenPoints ==
    \E spot_range \in Opt(SpotGrids), include_underlying \in BOOLEAN :
         CommitRisk(calculate_breakeven_points(Self, spot_range, include_underlying),
                    "calculate_breakeven_points", <<spot_range, include_underlying>>)

\* The argument lists of calculate_probability_of_profit: by simulation, or
\* by the other method.
ProbabilityInputs ==
    {<<"monte_carlo", include_underlying, days_to_expiry>> :
        include_underlying \in BOOLEAN, days_to_expiry \in Opt({2})}
      \cup {<<"normal", FALSE, None>>}

CalculateProbabilityOfProfit ==
    \E a \in ProbabilityInputs, variates \in VariateStreams :
       LET method == a[1]
           include_underlying == a[2]
           days_to_expiry == a[3]
       IN
         CommitRisk(calculate_probability_of_profit(Self, method, Len(variates),
                                                    include_underlying,
                                                    days_to_expiry, variates),
                    "calculate_probability_of_profit",
                    <<method, Len(variates), include_underlying, days_to_expiry,
                      variates>>)

RiskRewardAnalysis ==
    \E spot_range \in Opt({g \in SpotGrids : Len(g) = MaxSamples}),
       variates \in {v \in VariateStreams : Len(v) = MaxSims} :
         CommitRisk(risk_reward_analysis(Self, spot_range, Len(variates), variates),
                    "risk_reward_analysis", <<spot_range, Len(variates), variates>>)

InitRisk == NewPortfolio(HedgeInputs, {FdProvided})

NextRisk ==
    \/ AddCallOrPut
    \/ MoveSpot
    \/ CalculateNetDebit
    \/ CalculatePnlAtExpiry
    \/ CalculateExtreme
    \/ CalculateBreakevenPoints
    \/ CalculateProbabilityOfProfit
    \/ RiskRewardAnalysis

SpecRisk == InitRisk /\ [][NextRisk]_vars

-----------------------------------------------------------------------------
(* Two stand-alone AmericanOption instances, A and B, in one process.      *)

OptionOf(w) == IF w = "A" THEN optA ELSE optB

\* A call on instance w returned or raised.  A constructor that raises
\* leaves the name bound to what it was bound to.
CommitOption(w, r, op, bind) ==
    /\ optA' = IF w = "A" /\ bind THEN r.o ELSE optA
    /\ optB' = IF w = "B" /\ bind THEN r.o ELSE optB
    /\ evaluationDate' = r.ed
    /\ last' = [val |-> r.val, exc |-> r.exc, op |-> w \o "." \o op]
    /\ UNCHANGED <<pfvars, provided, threads>>

ConstructA ==
    \E c \in {Contract(10100, 3, "call", -1), Contract(10100, 1, "put", 2)} :
       LET r == NewOption(InitSpot, c.strike, c.maturity, InitVol, InitRate,
                          InitDiv, c.kind, InitDate, evaluationDate)
       IN  CommitOption("A", r, "__init__", r.exc = NoExc)

ConstructB ==
    \E vdate \in {InitDate} \cup DateInputs :
       LET r == NewOption(InitSpot, 10100, 3, InitVol, InitRate, InitDiv, "call",
                          vdate, evaluationDate)
       IN  CommitOption("B", r, "__init__", r.exc = NoExc)

OptionUpdateSpotPrice ==
    /\ optA # None
    /\ \E x \in SpotInputs :
         CommitOption("A", Out(UpdateSpotPrice(optA, x), evaluationDate, Q(0), NoExc),
                      "update_spot_price", TRUE)

OptionUpdateVolatility ==
    \E w \in {"A", "B"}, v \in VolInputs :
       /\ OptionOf(w) # None
       /\ CommitOption(w, UpdateVolatility(OptionOf(w), evaluationDate, v),
                       "update_volatility", TRUE)

OptionMetric ==
    \E w \in {"A", "B"}, m \in Metrics :
       /\ OptionOf(w) # None
       /\ Drift(OptionOf(w)) < MaxDrift
       /\ CommitOption(w, Metric(OptionOf(w), evaluationDate, m), m, TRUE)

InitOpt == NewPortfolio({0}, {FdProvided, {}})

NextOpt ==
    \/ ConstructA
    \/ ConstructB
    \/ OptionUpdateSpotPrice
    \/ OptionUpdateVolatility
    \/ OptionMetric

SpecOpt == InitOpt /\ [][NextOpt]_vars

-----------------------------------------------------------------------------
(* Two threads on one portfolio: a writer in                               *)
(* update_market_conditions(spot_price=x) and a reader in total_value,     *)
(* total_delta or net_delta.  The classes hold no lock, so the interpreter *)
(* may switch threads between any two steps; the model switches between    *)
(* the iterations of the two loops over self.positions.                    *)

ConcGetters == {"total_value", "total_delta", "net_delta"}

GetterMetric(g) == IF g = "total_value" THEN "price" ELSE "delta"

\* add_position by either thread while the other is outside the portfolio.
ConcAddPosition ==
    /\ threads.wpc = "idle"
    /\ threads.rpc = "idle"
    /\ Len(positions) < MaxPos
    /\ \E c \in {Contract(10100, 3, "call", -1), Contract(10100, 1, "put", 2)} :
         Commit(add_position(Self, c.strike, c.maturity, c.quantity, c.kind, "X",
                             DefaultContractSize),
                "add_position")

\* update_market_conditions(spot_price=x), line 347: self.spot_price = x.
WriterBegin ==
    /\ threads.wpc = "idle"
    /\ \E x \in {InitSpot} \cup (SpotInputs \ BadSpots) :
         /\ x # spot_price
         /\ spot_price' = x
         /\ threads' = [threads EXCEPT !.wpc = "engines", !.wnext = 1, !.wspot = x]
    /\ UNCHANGED <<positions, underlying_quantity, volatility, risk_free_rate,
                   dividend_yield, valuation_date, evaluationDate, optA, optB,
                   provided, last>>

\* One iteration of the loop of lines 348-349:
\* pos.option.update_spot_price(spot_price).
WriterStep ==
    /\ threads.wpc = "engines"
    /\ threads.wnext <= Len(positions)
    /\ positions' = [positions EXCEPT ![threads.wnext].option =
                                        UpdateSpotPrice(@, threads.wspot)]
    /\ threads' = [threads EXCEPT !.wnext = @ + 1]
    /\ UNCHANGED <<underlying_quantity, spot_price, volatility, risk_free_rate,
                   dividend_yield, valuation_date, evaluationDate, optA, optB,
                   provided, last>>

\* The loop is over and no other argument was given: the call returns.
WriterReturn ==
    /\ threads.wpc = "engines"
    /\ threads.wnext > Len(positions)
    /\ threads' = [threads EXCEPT !.wpc = "idle"]
    /\ last' = [val |-> Q(0), exc |-> NoExc, op |-> "update_market_conditions"]
    /\ UNCHANGED <<pfvars, evaluationDate, optA, optB, provided>>

\* A getter is entered: sum(...) starts from 0 (lines 162, 174, 199).
ReaderBegin ==
    /\ threads.rpc = "idle"
    /\ \E g \in ConcGetters :
         threads' = [threads EXCEPT !.rpc = "sum", !.rnext = 1, !.rgetter = g,
                                    !.racc = Q(0), !.seen = <<>>]
    /\ UNCHANGED <<pfvars, evaluationDate, optA, optB, provided, last>>

\* One item of the generator of lines 162 and 174: pos.position_value() or
\* pos.position_delta() of the next position, added to the sum; a metric
\* that raises ends the getter.
ReaderStep ==
    /\ threads.rpc = "sum"
    /\ threads.rnext <= Len(positions)
    /\ \E r \in {PositionMetric(positions[threads.rnext], evaluationDate,
                                 GetterMetric(threads.rgetter))} :
         /\ positions' = [positions EXCEPT ![threads.rnext] = r.p]
         /\ evaluationDate' = r.ed
         /\ IF r.exc # NoExc
            THEN /\ threads' = [threads EXCEPT !.rpc = "idle"]
                 /\ last' = [val |-> Q(0), exc |-> r.exc, op |-> threads.rgetter]
            ELSE /\ threads' =
                      [threads EXCEPT
                         !.rnext = @ + 1,
                         !.racc = QAdd(@, r.val),
                         !.seen = Append(@, positions[threads.rnext].option.spot_quote)]
                 /\ UNCHANGED last
    /\ UNCHANGED <<underlying_quantity, spot_price, volatility, risk_free_rate,
                   dividend_yield, valuation_date, optA, optB, provided>>

\* The generator is exhausted: the getter returns the sum, net_delta after
\* adding underlying_quantity (line 199).
ReaderReturn ==
    /\ threads.rpc = "sum"
    /\ threads.rnext > Len(positions)
    /\ threads' = [threads EXCEPT !.rpc = "idle"]
    /\ last' = [val |-> IF threads.rgetter = "net_delta"
                        THEN QAdd(threads.racc, Q(underlying_quantity))
                        ELSE threads.racc,
                exc |-> NoExc, op |-> threads.rgetter]
    /\ UNCHANGED <<pfvars, evaluationDate, optA, optB, provided>>

InitConc == NewPortfolio(UnderlyingInputs, {FdProvided})

NextConc ==
    \/ ConcAddPosition
    \/ WriterBegin
    \/ WriterStep
    \/ WriterReturn
    \/ ReaderBegin
    \/ ReaderStep
    \/ ReaderReturn

SpecConc == InitConc /\ [][NextConc]_vars

-----------------------------------------------------------------------------
(* Claims about update_market_conditions and the synchronisation of the    *)
(* positions with the portfolio, under Spec.                               *)

\* Whether every position's engine carries the portfolio's spot, volatility,
\* rate and dividend yield.
InSync(ps, spot, vol, rate, div) ==
    \A i \in 1..Len(ps) :
       /\ ps[i].option.spot_price = spot
       /\ ps[i].option.volatility = vol
       /\ ps[i].option.risk_free_rate = rate
       /\ ps[i].option.dividend_yield = div

\* C1: update_market_conditions is atomic: a call that raises leaves the
\* portfolio's spot, volatility, rate, dividend yield, valuation date and its
\* positions (their engines included) exactly as they were before the call;
\* a call that returns leaves every position reflecting the new state.
C1_Atomic ==
    [][last'.op = "update_market_conditions"
         => IF last'.exc # NoExc
            THEN UNCHANGED pfvars
            ELSE InSync(positions', spot_price', volatility', risk_free_rate',
                        dividend_yield')]_vars

\* C2: after any sequence of add_position, remove_position, update_position,
\* update_market_conditions, scenario_analysis and clear_positions, every
\* position's engine has the portfolio's spot, volatility, rate and dividend
\* yield.
C2_Synchronized ==
    InSync(positions, spot_price, volatility, risk_free_rate, dividend_yield)

\* C3: on a portfolio holding at least one position,
\* update_market_conditions(valuation_date=d) returns without error, the
\* portfolio's valuation date is d, every position's engine has valuation
\* date d, and every position keeps its quantity and contract size.
C3_ValuationDateUpdate ==
    Len(positions) >= 1 =>
       \A d \in DateInputs :
          LET r == update_market_conditions(Self, None, None, None, None, Some(d))
          IN  /\ r.exc = NoExc
              /\ r.s.valuation_date = d
              /\ Len(r.s.positions) = Len(positions)
              /\ \A i \in 1..Len(positions) :
                    /\ r.s.positions[i].option.valuation_date = d
                    /\ r.s.positions[i].quantity = positions[i].quantity
                    /\ r.s.positions[i].contract_size = positions[i].contract_size

-----------------------------------------------------------------------------
(* Claims about the stand-alone engines A and B, under SpecOpt.            *)

GreekCalls(w) == {w \o "." \o g : g \in Greeks}

\* C4: a Greek of an engine leaves the engine's spot_price, volatility and
\* risk_free_rate and the process-wide evaluation date exactly as they were
\* before the call, whether the call returns or a reprice raises in the
\* middle of the bump sequence.
C4_FallbackRestores ==
    [][\A w \in {"A", "B"} :
          last'.op \in GreekCalls(w) =>
             /\ OptionOf(w)'.spot_price = OptionOf(w).spot_price
             /\ OptionOf(w)'.volatility = OptionOf(w).volatility
             /\ OptionOf(w)'.risk_free_rate = OptionOf(w).risk_free_rate
             /\ evaluationDate' = evaluationDate]_vars

\* What an observation of engine o returns under evaluation date ed: the
\* value, or the exception raised.
Observe(o, ed, m) ==
    LET r == Metric(o, ed, m) IN <<r.val, r.exc>>

\* C5: constructing B, updating B's volatility or computing a Greek of B
\* between two observations of A does not change what price() and the Greeks
\* of A return.
C5_Independent ==
    [][optA # None
         /\ last'.op \in {"B.__init__", "B.update_volatility"} \cup GreekCalls("B")
         => \A m \in Metrics :
               Observe(optA', evaluationDate', m) = Observe(optA, evaluationDate, m)]_vars

-----------------------------------------------------------------------------
(* Claims about editing positions, under SpecEdit.                         *)

\* C6: remove_position(index) and update_position(index, ...) raise
\* IndexError for every index < 0 or >= len(positions), the empty portfolio
\* included, and then leave the positions as they were; for an index in
\* range they raise no IndexError.
C6_IndexOutOfRange ==
    \A index \in -2..(MaxPos + 1) :
       LET bad == index < 0 \/ index >= Len(positions)
           r == remove_position(Self, index)
       IN  /\ bad => r.exc = "IndexError" /\ r.s.positions = positions
           /\ ~bad => r.exc # "IndexError"
           /\ \A l \in LabelInputs, c \in TermInputs :
                 LET u == update_position(Self, index, l[1], c[1], c[2], c[3],
                                          l[3], l[2])
                 IN  /\ bad => u.exc = "IndexError" /\ u.s.positions = positions
                     /\ ~bad => u.exc # "IndexError"

\* A call on a portfolio that holds positions was refused for its index.
C6_Witness ==
    /\ last.op \in {"remove_position", "update_position"}
    /\ last.exc = "IndexError"
    /\ Len(positions) >= 1

\* What an optional argument asks for: the value given, or the current one.
Requested(arg, current) == IF arg # None THEN arg[1] ELSE current

-----------------------------------------------------------------------------
(* Claims about the aggregates, under SpecAgg.                             *)

\* C8: hedge_ratio() returns exactly 0 whenever underlying_quantity is 0,
\* whatever the positions, and never raises ZeroDivisionError; when
\* underlying_quantity is not 0 and total_delta() returns, it returns
\* -(total_delta / underlying_quantity) * 100.
C8_HedgeRatio ==
    LET h == hedge_ratio(Self)
        t == total_delta(Self)
    IN  /\ h.exc # "ZeroDivisionError"
        /\ underlying_quantity = 0 => h.exc = NoExc /\ h.val = Q(0)
        /\ underlying_quantity # 0 /\ t.exc = NoExc =>
              /\ h.exc = NoExc
              /\ h.val = QMul(QNeg(QDiv(t.val, Q(underlying_quantity))),
                              Q(PercentScale))

\* hedge_ratio() returned 0 for a portfolio without underlying whose
\* positions have a total delta other than 0.
C8_Witness ==
    /\ last.op = "hedge_ratio"
    /\ last.exc = NoExc
    /\ last.val = Q(0)
    /\ underlying_quantity = 0
    /\ Len(positions) >= 1
    /\ total_delta(Self).val # Q(0)

\* C9: in every reachable state net_delta() is total_delta() plus
\* underlying_quantity and delta_adjustment_needed() is minus net_delta(),
\* so that the two add up to 0; the calls are made one after the other.
C9_NetDelta ==
    LET t == total_delta(Self)
        n == net_delta(t.s)
        a == delta_adjustment_needed(n.s)
    IN  t.exc = NoExc =>
           /\ n.exc = NoExc
           /\ a.exc = NoExc
           /\ n.val = QAdd(t.val, Q(underlying_quantity))
           /\ a.val = QNeg(n.val)
           /\ QAdd(n.val, a.val) = Q(0)

\* delta_adjustment_needed() returned for a portfolio that holds underlying
\* and positions with a total delta other than 0.
C9_Witness ==
    /\ last.op = "delta_adjustment_needed"
    /\ last.exc = NoExc
    /\ underlying_quantity # 0
    /\ Len(positions) >= 1
    /\ total_delta(Self).val # Q(0)
    /\ last.val = QNeg(QAdd(total_delta(Self).val, Q(underlying_quantity)))

\* The positions in the opposite order.
Reversed(seq) == [k \in 1..Len(seq) |-> seq[Len(seq) + 1 - k]]

\* What an aggregate returns: the value, or the exception raised.
ObserveTotal(s, m) ==
    LET r == Total(s, m) IN <<r.val, r.exc>>

\* Whether the six totals are those of the portfolio with its positions in
\* the opposite order.
PermutationInvariant ==
    \A m \in Metrics :
       ObserveTotal([Self EXCEPT !.positions = Reversed(@)], m) = ObserveTotal(Self, m)

\* C10: the six totals of a portfolio are those of the portfolio with its
\* positions permuted, and an aggregate getter that has returned leaves
\* every total, as a later call would return it, what it was before.
C10_OrderIndependent ==
    [][/\ PermutationInvariant
       /\ last'.op \in GetterNames /\ last'.exc = NoExc =>
             \A m \in Metrics : ObserveTotal(Self', m) = ObserveTotal(Self, m)]_vars

-----------------------------------------------------------------------------
(* Claims about rejected arguments.                                        *)

\* Whether every stored position is a call or a put.
KindsValid(ps) == \A i \in 1..Len(ps) : ps[i].option.option_type \in {"call", "put"}

\* C11: constructing an AmericanOption with a kind that is neither call nor
\* put after lower-casing raises ValueError, from the constructor itself, from
\* add_position (which then appends nothing) and from update_position (which
\* then leaves the position its engine); "CALL" is accepted; no stored
\* position ever has another kind than call or put.
C11_InvalidKind ==
    /\ KindsValid(positions)
    /\ \A kind \in InvalidKinds, strike \in Strikes, maturity \in {1, 3} :
         /\ NewOption(spot_price, strike, maturity, volatility, risk_free_rate,
                      dividend_yield, kind, valuation_date, evaluationDate).exc
               = "ValueError"
         /\ LET r == add_position(Self, strike, maturity, 2, kind, "X",
                                  DefaultContractSize)
            IN  r.exc = "ValueError" /\ r.s.positions = positions
         /\ \A index \in 0..(Len(positions) - 1), l \in LabelInputs :
               LET r == update_position(Self, index, l[1], Some(strike),
                                        Some(maturity), Some(kind), l[3], l[2])
               IN  /\ r.exc = "ValueError"
                   /\ KindsValid(r.s.positions)
                   /\ Len(r.s.positions) = Len(positions)
                   /\ r.s.positions[index + 1].option = positions[index + 1].option
    /\ NewOption(spot_price, 10100, 3, volatility, risk_free_rate, dividend_yield,
                 "CALL", valuation_date, evaluationDate).exc = NoExc

\* add_position raised ValueError on a portfolio that holds a position, and
\* the portfolio holds what it held.
C11_Witness ==
    /\ last.op = "add_position"
    /\ last.exc = "ValueError"
    /\ Len(positions) >= 1
    /\ KindsValid(positions)

\* C12: out-of-domain arguments are rejected and never stored.  The
\* constructor raises ValueError for a spot or strike that is not positive, a
\* negative volatility, or a maturity at or before the valuation date;
\* update_spot_price, update_volatility and update_market_conditions raise
\* ValueError for a spot that is not positive or a negative volatility and
\* leave the engine, respectively the portfolio, as it was.
C12_OutOfDomainRejected ==
    /\ \A x \in BadSpots :
         /\ NewOption(x, 10100, 3, InitVol, InitRate, InitDiv, "call", valuation_date,
                      evaluationDate).exc = "ValueError"
         /\ LET r == update_market_conditions(Self, Some(x), None, None, None, None)
            IN  r.exc = "ValueError" /\ r.s = Self
         /\ \A i \in 1..Len(positions) :
               UpdateSpotPrice(positions[i].option, x) = positions[i].option
    /\ \A v \in BadVols :
         /\ NewOption(InitSpot, 10100, 3, v, InitRate, InitDiv, "call", valuation_date,
                      evaluationDate).exc = "ValueError"
         /\ LET r == update_market_conditions(Self, None, Some(v), None, None, None)
            IN  r.exc = "ValueError" /\ r.s = Self
         /\ \A i \in 1..Len(positions) :
               LET r == UpdateVolatility(positions[i].option, evaluationDate, v)
               IN  r.exc = "ValueError" /\ r.o = positions[i].option
    /\ \A k \in BadStrikes :
         NewOption(InitSpot, k, 3, InitVol, InitRate, InitDiv, "call", valuation_date,
                   evaluationDate).exc = "ValueError"
    /\ \A m \in {valuation_date, valuation_date - 1} :
         NewOption(InitSpot, 10100, m, InitVol, InitRate, InitDiv, "call",
                   valuation_date, evaluationDate).exc = "ValueError"

-----------------------------------------------------------------------------
(* Claims about the risk/reward analysis, under SpecRisk.  A claim speaks  *)
(* of the step a call makes: `last'` holds its arguments and its result,   *)
(* the unprimed variables the portfolio it was made on.                    *)

\* The sum the claim gives for the option positions from the i-th on:
\* (intrinsic at expiry - current price) * quantity * contract size.
RECURSIVE ClaimedPnlFrom(_, _)
ClaimedPnlFrom(i, spot_at_expiry) ==
    IF i > Len(positions) THEN Q(0)
    ELSE LET pos == positions[i]
             intrinsic == IF pos.option.option_type = "call"
                          THEN QMax(Q(0), QSub(spot_at_expiry,
                                               Q(pos.option.strike_price)))
                          ELSE QMax(Q(0), QSub(Q(pos.option.strike_price),
                                               spot_at_expiry))
             price == NPV(pos.option, evaluationDate).val
         IN  QAdd(QMul(QMul(QSub(intrinsic, price), Q(pos.quantity)),
                       Q(pos.contract_size)),
                  ClaimedPnlFrom(i + 1, spot_at_expiry))

\* (S - spot_price) * underlying_quantity.
UnderlyingPnl(spot_at_expiry) ==
    QMul(QSub(spot_at_expiry, Q(spot_price)), Q(underlying_quantity))

\* C13: a calculate_pnl_at_expiry(S, include_underlying) that returns, returns
\* the sum over the positions of (intrinsic_i(S) - price_i) * quantity_i *
\* contract_size_i, plus (S - spot_price) * underlying_quantity when
\* include_underlying is true; the results with and without the underlying
\* differ by exactly that term; an empty portfolio without the underlying
\* gives 0.
C13_PnlAtExpiry ==
    [][last'.op = "calculate_pnl_at_expiry" /\ last'.exc = NoExc =>
         LET S == last'.args[1]
             include_underlying == last'.args[2]
         IN  /\ last'.val = IF include_underlying
                            THEN QAdd(ClaimedPnlFrom(1, S), UnderlyingPnl(S))
                            ELSE ClaimedPnlFrom(1, S)
             /\ QSub(calculate_pnl_at_expiry(Self, S, TRUE).val,
                     calculate_pnl_at_expiry(Self, S, FALSE).val) = UnderlyingPnl(S)
             /\ positions = <<>> /\ ~include_underlying => last'.val = Q(0)]_vars

\* calculate_pnl_at_expiry returned, with the underlying included, for a
\* portfolio of a call and a put that holds underlying, at a spot where the
\* put is in the money.
C13_Witness ==
    /\ last.op = "calculate_pnl_at_expiry"
    /\ last.exc = NoExc
    /\ last.args = <<Q(10000), TRUE>>
    /\ underlying_quantity # 0
    /\ Len(positions) = 2
    /\ positions[1].option.option_type # positions[2].option.option_type
    /\ last.val # Q(0)

\* The P&L at expiry at each point of a grid.
Samples(grid, include_underlying) ==
    [k \in DOMAIN grid |-> calculate_pnl_at_expiry(Self, grid[k], include_underlying).val]

\* Whether val is the least of the samples and is attained at the grid point at.
IsMinimumAt(p, grid, val, at) ==
    /\ \A k \in DOMAIN grid : ~QLt(p[k], val)
    /\ \E k \in DOMAIN grid : grid[k] = at /\ p[k] = val

\* Whether val is the greatest of the samples and is attained at the grid
\* point at.
IsMaximumAt(p, grid, val, at) ==
    /\ \A k \in DOMAIN grid : ~QLt(val, p[k])
    /\ \E k \in DOMAIN grid : grid[k] = at /\ p[k] = val

\* C14: over a grid that is not empty, calculate_max_loss_options / _total
\* return the least P&L at expiry over the grid and a grid point where it is
\* attained, and calculate_max_profit_options / _total the greatest and a grid
\* point where it is attained, whatever the signs of the P&L over the grid.
C14_GridExtremes ==
    [][last'.op \in ExtremeNames /\ last'.exc = NoExc
         /\ Len(RangeOrDefault(Self, last'.args[1])) >= 1 =>
         LET grid == RangeOrDefault(Self, last'.args[1])
             total == last'.op \in {"calculate_max_loss_total",
                                    "calculate_max_profit_total"}
             p == Samples(grid, total)
         IN  IF last'.op \in {"calculate_max_loss_options", "calculate_max_loss_total"}
             THEN IsMinimumAt(p, grid, last'.val.max_loss, last'.val.spot_at_max_loss)
             ELSE IsMaximumAt(p, grid, last'.val.max_profit,
                              last'.val.spot_at_max_profit)]_vars

\* C15: is_unlimited is decided by the sign of underlying_quantity alone:
\* calculate_max_loss_total reports it iff underlying_quantity < 0,
\* calculate_max_profit_total iff underlying_quantity > 0, and the two
\* options-only methods never, whatever the grid and the positions.
C15_UnlimitedFlag ==
    [][last'.op \in ExtremeNames /\ last'.exc = NoExc =>
         last'.val.is_unlimited =
            CASE last'.op = "calculate_max_loss_total" -> underlying_quantity < 0
              [] last'.op = "calculate_max_profit_total" -> underlying_quantity > 0
              [] OTHER -> FALSE]_vars

\* calculate_max_loss_total returned without the flag for a portfolio that is
\* long the underlying and holds a short option position.
C15_Witness ==
    /\ last.op = "calculate_max_loss_total"
    /\ last.exc = NoExc
    /\ ~last.val.is_unlimited
    /\ underlying_quantity > 0
    /\ \E i \in 1..Len(positions) : positions[i].quantity < 0

\* The grid points the claim reports from the k-th on: g[k] for every pair of
\* consecutive samples that goes from negative to non-negative, from positive
\* to non-positive, or from zero to non-zero.
RECURSIVE ClaimedBreakevensFrom(_, _, _)
ClaimedBreakevensFrom(p, grid, k) ==
    IF k > Len(grid) THEN <<>>
    ELSE (IF \/ QLt(p[k - 1], Q(0)) /\ ~QLt(p[k], Q(0))
             \/ QLt(Q(0), p[k - 1]) /\ ~QLt(Q(0), p[k])
             \/ p[k - 1] = Q(0) /\ p[k] # Q(0)
          THEN <<grid[k]>> ELSE <<>>)
           \o ClaimedBreakevensFrom(p, grid, k + 1)

\* C16: over an ascending grid calculate_breakeven_points returns, in
\* ascending order and each once, exactly the grid points g[i], i >= 1, whose
\* pair of P&L samples at g[i-1] and g[i] goes from negative to non-negative,
\* from positive to non-positive, or from exactly zero to non-zero.
C16_Breakevens ==
    [][last'.op = "calculate_breakeven_points" /\ last'.exc = NoExc =>
         LET grid == RangeOrDefault(Self, last'.args[1])
             p == Samples(grid, last'.args[2])
         IN  last'.val = ClaimedBreakevensFrom(p, grid, 2)]_vars

\* The P&L at expiry of the k-th simulated spot of a run.
SamplePnl(k, days, variates, include_underlying) ==
    calculate_pnl_at_expiry(Self, FinalSpot(Self, days, variates[k]),
                            include_underlying).val

RECURSIVE SumOfSamples(_, _, _, _)
SumOfSamples(k, days, variates, include_underlying) ==
    IF k = 0 THEN Q(0)
    ELSE QAdd(SumOfSamples(k - 1, days, variates, include_underlying),
              SamplePnl(k, days, variates, include_underlying))

C18_ReadOnly ==
    [][last'.op \in RiskNames => UNCHANGED pfvars]_vars

\* risk_reward_analysis returned for a portfolio of two positions.
C18_Witness ==
    /\ last.op = "risk_reward_analysis"
    /\ last.exc = NoExc
    /\ Len(positions) = 2
    /\ last.val.max_loss_total.max_loss # Q(0)

-----------------------------------------------------------------------------
(* Claims about scenario_analysis and the rebuild of the engines, under    *)
(* Spec.                                                                   *)

\* Whether the portfolio and every engine hold the spot and the volatility
\* they held before the step.
MarketRestored ==
    /\ spot_price' = spot_price
    /\ volatility' = volatility
    /\ Len(positions') = Len(positions)
    /\ \A i \in 1..Len(positions) :
          /\ positions'[i].option.spot_price = positions[i].option.spot_price
          /\ positions'[i].option.volatility = positions[i].option.volatility

\* C19: scenario_analysis is a scoped shock: when it returns or raises, the
\* portfolio's spot and volatility and every engine's spot and volatility
\* are what they were before the call, for every spot_range and vol_range.
C19_ScopedShock ==
    [][last'.op = "scenario_analysis" => MarketRestored]_vars

\* The argument lists of update_market_conditions that give a rate or a
\* dividend yield.
RateCalls == {a \in MarketInputs : a[3] # None \/ a[4] # None}

\* Whether the portfolio q keeps the structure of the portfolio p: as many
\* positions, in the same order, each with the strike, maturity, kind,
\* quantity and contract size it had.
SameStructure(p, q) ==
    /\ Len(q.positions) = Len(p.positions)
    /\ \A i \in 1..Len(p.positions) :
          /\ q.positions[i].option.strike_price = p.positions[i].option.strike_price
          /\ q.positions[i].option.maturity_date = p.positions[i].option.maturity_date
          /\ q.positions[i].option.option_type = p.positions[i].option.option_type
          /\ q.positions[i].quantity = p.positions[i].quantity
          /\ q.positions[i].contract_size = p.positions[i].contract_size

\* Whether every engine of the portfolio q carries the rate and the dividend
\* yield the call gave (the portfolio's own where it gave none) and the
\* portfolio's spot and volatility.
CarriesRates(p, q, a) ==
    LET rate == IF a[3] # None THEN a[3][1] ELSE p.risk_free_rate
        div  == IF a[4] # None THEN a[4][1] ELSE p.dividend_yield
    IN  \A i \in 1..Len(q.positions) :
           LET o == q.positions[i].option
           IN  /\ o.spot_price = q.spot_price /\ o.spot_quote = q.spot_price
               /\ o.volatility = q.volatility /\ o.flat_vol_ts = q.volatility
               /\ o.risk_free_rate = rate /\ o.flat_ts = rate
               /\ o.dividend_yield = div /\ o.dividend_ts = div

\* C20: update_market_conditions with a risk_free_rate or a dividend_yield
\* argument returns with the number and the order of the positions
\* unchanged, the i-th position keeping its strike, maturity, kind, quantity
\* and contract size, and every engine carrying the new rate and dividend
\* yield and the portfolio's current spot and volatility.
C20_RebuildPreserves ==
    \A a \in RateCalls :
       LET r == update_market_conditions(Self, a[1], a[2], a[3], a[4], a[5])
       IN  /\ r.exc = NoExc
           /\ SameStructure(Self, r.s)
           /\ CarriesRates(Self, r.s, a)

-----------------------------------------------------------------------------
(* Claims about the pricing objects of a stand-alone engine, under SpecOpt. *)

\* Whether the live pricing objects of the engine o hold what the instance
\* records: the quote its spot, the three term structures its volatility,
\* rate and dividend yield.
PricingObjectsCurrent(o) ==
    /\ o.spot_quote = o.spot_price
    /\ o.flat_vol_ts = o.volatility
    /\ o.flat_ts = o.risk_free_rate
    /\ o.dividend_ts = o.dividend_yield

\* Whether a step that is not a construction of instance w leaves the strike,
\* maturity and kind of w as they were.
TermsKept(w, o, n) ==
    (o # None /\ last'.op # w \o ".__init__") =>
        /\ n.strike_price = o.strike_price
        /\ n.maturity_date = o.maturity_date
        /\ n.option_type = o.option_type

\* C22: after any sequence of update_spot_price, update_volatility and Greek
\* calls on an AmericanOption (fallbacks included, and also when a call of
\* the sequence raised), its spot quote and its volatility, rate and
\* dividend term structures hold the instance's recorded spot_price,
\* volatility, risk_free_rate and dividend_yield, and its strike, maturity
\* and kind are the ones given at construction.
C22_NoStalePricingState ==
    /\ [](\A w \in {"A", "B"} :
             OptionOf(w) # None => PricingObjectsCurrent(OptionOf(w)))
    /\ [][TermsKept("A", optA, optA') /\ TermsKept("B", optB, optB')]_vars

\* Instance A after update_spot_price and update_volatility, when a rho
\* computed by its bump-and-reprice fallback has just returned.
C22_Witness ==
    /\ optA # None
    /\ optA.spot_price = 10200
    /\ optA.volatility = 25
    /\ provided = {}
    /\ last.op = "A.rho"
    /\ last.exc = NoExc
    /\ last.val # Q(0)

-----------------------------------------------------------------------------
(* Claims about what the calls on a portfolio leave in its positions,      *)
(* under Spec.                                                             *)

\* C23: after any sequence of add_position, update_position,
\* update_market_conditions, remove_position and clear_positions calls,
\* calls that raise included, every stored position's option kind is exactly
\* "call" or "put", so that a position that is not a call is a put.
C23_StoredKinds ==
    \A i \in 1..Len(positions) :
       /\ positions[i].option.option_type \in {"call", "put"}
       /\ positions[i].option.option_type # "call"
             => positions[i].option.option_type = "put"

\* update_position was given a kind that is neither call nor put and raised,
\* on a portfolio of two positions.
C23_Witness ==
    /\ last.op = "update_position"
    /\ last.exc = "ValueError"
    /\ Len(positions) = 2

\* The argument lists of update_market_conditions that give no valuation
\* date: every combination the claim names.
NoDateCalls ==
    {a \in MarketInputs : a[5] = None}
      \cup {<<Some(x), Some(v), Some(r), Some(q), None>> :
               x \in SpotInputs, v \in VolInputs, r \in RateInputs, q \in DivInputs}

\* Whether the i-th position of the portfolio q has the symbol of the i-th
\* position of the portfolio p, for every i.
SameSymbols(p, q) ==
    /\ Len(q.positions) = Len(p.positions)
    /\ \A i \in 1..Len(p.positions) : q.positions[i].symbol = p.positions[i].symbol

\* C24: update_market_conditions preserves every position's display label:
\* for every combination of spot, volatility, rate and dividend arguments
\* the symbol of the i-th position after the call is the symbol of the i-th
\* position before the call.
C24_SymbolsPreserved ==
    \A a \in NoDateCalls :
       SameSymbols(Self, update_market_conditions(Self, a[1], a[2], a[3], a[4], a[5]).s)

-----------------------------------------------------------------------------
(* Claims about update_position that raises, under SpecEdit.               *)

\* C25: an update_position that raises, for an index out of range or
\* because the replacement engine cannot be constructed, leaves every
\* position's quantity, contract size, symbol and engine exactly what they
\* were before the call.
C25_FailedUpdateUnchanged ==
    [][(last'.op = "update_position" /\ last'.exc # NoExc)
          => positions' = positions]_vars

-----------------------------------------------------------------------------
(* Claims about concurrent callers, under SpecConc.                        *)

\* C21: when update_market_conditions runs concurrently with a reader of an
\* aggregate getter, the mutation and the read do not interleave: the
\* engines the reader has summed were all read in one market state, none of
\* them at the new spot while another was at the old one.
C21_NoInterleaving ==
    \A j, k \in 1..Len(threads.seen) : threads.seen[j] = threads.seen[k]

=============================================================================
